---- MODULE Spec2Model ----
(***************************************************************************)
(* A model of ThemeEngine (src/src/ThemeEngine.js).  src/unnamed/part_000   *)
(* is an earlier version of the same class: its createTheme differs and is  *)
(* modelled beside the current one; its cssAdd differs in the branch for a  *)
(* reply that is not a list, where it always triggers the diagnostic; the   *)
(* rest of it is the current version line for line.                         *)
(*                                                                         *)
(* ThemeEngine holds two collaborators: this._postcss (the CSS engine) and  *)
(* this._eventbus (the plugin bus).  Both are modelled as recording fakes   *)
(* that write into one journal, `trace`, so that the order of engine calls, *)
(* bus traffic and promise settlements can be stated.  `calls` holds the    *)
(* asynchronous invocations of the class's methods with the locals each     *)
(* keeps across an await.  JavaScript runs each synchronous stretch of a    *)
(* method to completion, so each action below is one such stretch: from     *)
(* the call (or the resumption after an await) to the next await or return. *)
(***************************************************************************)
EXTENDS Integers, Sequences, FiniteSets, TLC

VARIABLES trace, calls

vars == <<trace, calls>>

(***************************************************************************)
(* Bounds of the model.                                                    *)
(***************************************************************************)
\* createTheme invocations in one behaviour
MaxCreate == 1
\* entries of the list cssAppendAll or cssPrependAll is given
MaxAdds == 3
\* finalizeTheme invocations in one behaviour
MaxFinalize == 1

(***************************************************************************)
(* JavaScript values.  Every value is a record tagged with its kind; a      *)
(* string is a sequence of tokens, <<"lit", text>> or <<"var", key>> (a     *)
(* ${key} placeholder), so that template rendering is a computation.        *)
(***************************************************************************)
Undefined == [t |-> "undefined"]
Null      == [t |-> "null"]
Lit(s)    == <<"lit", s>>
Var(k)    == <<"var", k>>
Str(s)    == [t |-> "string", v |-> <<Lit(s)>>]
Path(tk)  == [t |-> "string", v |-> tk]
Num(n)    == [t |-> "number", v |-> n]
Bool(b)   == [t |-> "boolean", v |-> b]
Arr(s)    == [t |-> "array", v |-> s]
Obj(f)    == [t |-> "object", v |-> f]
Err(k, m) == [t |-> "error", v |-> <<k, m>>]

\* Array.isArray(x)
IsArray(x) == x.t = "array"

\* typeof x
TypeOf(x) ==
  CASE x.t = "undefined" -> "undefined"
    [] x.t = "string"    -> "string"
    [] x.t = "number"    -> "number"
    [] x.t = "boolean"   -> "boolean"
    [] OTHER             -> "object"

\* !!x
Truthy(x) ==
  CASE x.t = "undefined" -> FALSE
    [] x.t = "null"      -> FALSE
    [] x.t = "boolean"   -> x.v
    [] x.t = "number"    -> x.v # 0
    [] x.t = "string"    -> x.v # <<>>
    [] OTHER             -> TRUE

\* a default parameter value: it applies to undefined only
Default(x, d) == IF x = Undefined THEN d ELSE x

\* [f(s[1]), ..., f(s[n])]
Map(s, f(_)) == [i \in 1..Len(s) |-> f(s[i])]

RECURSIVE Concat(_)
\* s[1] \o ... \o s[n]
Concat(s) == IF s = <<>> THEN <<>> ELSE Head(s) \o Concat(Tail(s))

(***************************************************************************)
(* The journal.                                                            *)
(***************************************************************************)
\* a call on this._postcss
Engine(op, tag, arg, by) ==
  [on |-> "_postcss", op |-> op, tag |-> tag, arg |-> arg, by |-> by]
\* traffic on this._eventbus: trigger, triggerAsync, and the reply to one
Bus(op, tag, arg, by) ==
  [on |-> "_eventbus", op |-> op, tag |-> tag, arg |-> arg, by |-> by]
\* the promise of invocation `by` settles
Settle(op, arg, by) ==
  [on |-> "promise", op |-> op, tag |-> "", arg |-> arg, by |-> by]

\* the calls this._postcss has received, in order
postcss  == SelectSeq(trace, LAMBDA e : e.on = "_postcss")
\* the traffic this._eventbus has seen, in order
eventbus == SelectSeq(trace, LAMBDA e : e.on = "_eventbus")

\* an invocation of a method of the class
Call(op, args, pc, parent, index, locals) ==
  [op |-> op, args |-> args, pc |-> pc, parent |-> parent, index |-> index,
   locals |-> locals]

NoLocals == [none |-> TRUE]

Init ==
  /\ trace = <<>>
  /\ calls = <<>>

\* how many invocations of the methods in `ops` the behaviour has made
Count(ops) == Cardinality({c \in 1..Len(calls) : calls[c].op \in ops})

(***************************************************************************)
(* createTheme                                                             *)
(***************************************************************************)
\* the two versions of createTheme: src/src/ThemeEngine.js and part_000
Builds == {"src", "part_000"}

\* the inputs of createTheme the model draws from
FilesValues ==
  << Undefined, Str("a.css"), Arr(<<Str("a.css"), Str("b.css")>>),
     Arr(<<Str("a.css"), Num(42)>>), Arr(<<>>), Num(42), Obj([k |-> "v"]),
     Null, Bool(TRUE) >>
ProcessorsValues ==
  << Undefined, Null,
     Arr(<<Obj([name |-> "p1"]), Obj([name |-> "p2"])>>),
     Str("cssnano"), Obj([name |-> "p1"]) >>
FlagValues == << Undefined, Bool(TRUE), Bool(FALSE) >>

\* the default pipeline with the cleanup stages in the wrong order
DefaultProcessorsSwapped(map, debug) ==
  Arr(<<Obj([instance |-> "cssnext",
             options |-> IF map = Bool(TRUE) THEN "sourceMap:inline" ELSE "{}"])>>
      \o (IF ~Truthy(debug)
            THEN <<Obj([instance |-> "cssnano", options |-> "autoprefixer:false"]),
                   Obj([instance |-> "combineDup", options |-> ""])>>
            ELSE <<>>))

\* the default pipeline of the current version
DefaultProcessors(map, debug) ==
  Arr(<<Obj([instance |-> "cssnext",
             options |-> IF map = Bool(TRUE) THEN "sourceMap:inline" ELSE "{}"])>>
      \o (IF ~Truthy(debug)
            THEN <<Obj([instance |-> "combineDup", options |-> ""]),
                   Obj([instance |-> "cssnano", options |-> "autoprefixer:false"])>>
            ELSE <<>>))

\* the default parameter value of the earlier version
LegacyProcessors == Arr(<<Obj([name |-> "postcss-cssnext"])>>)

\* a files validation that also accepts a plain object
FilesInvalidLax(files) ==
  ~IsArray(files) /\ TypeOf(files) # "string" /\ TypeOf(files) # "object"

\* the first check of createTheme
FilesInvalid(files) == ~IsArray(files) /\ TypeOf(files) # "string"

\* the targets createTheme registers for a valid `files`
Targets(files) ==
  IF TypeOf(files) = "string" THEN <<files>>
  ELSE IF IsArray(files) THEN files.v
  ELSE <<>>

\* what createTheme(o) does: the engine calls it makes and how it ends
createTheme(b, o) ==
  LET files  == Default(o.files, Str("styles.css"))
      map    == Default(o.map, Bool(TRUE))
      silent == Default(o.silent, Bool(FALSE))
      debug  == Default(o.debug, Bool(FALSE))
      processors ==
        IF b = "src"
          THEN IF TypeOf(o.processors) = "undefined" \/ o.processors = Null
                 THEN DefaultProcessors(map, debug)
                 ELSE o.processors
          ELSE Default(o.processors, LegacyProcessors)
      spec(entry) ==
        IF b = "src"
          THEN Obj([name |-> entry, to |-> entry, map |-> map,
                    processors |-> processors, silent |-> silent])
          ELSE Obj([name |-> entry, to |-> entry,
                    processors |-> processors, silent |-> silent])
  IN  IF FilesInvalid(files)
        THEN [creates |-> <<>>, op |-> "reject",
              value |-> Err("TypeError", "'files' is not a 'string' or 'array'.")]
      ELSE IF ~IsArray(processors)
        THEN [creates |-> <<>>, op |-> "reject",
              value |-> Err("TypeError", "'processors' is not an 'array'.")]
      ELSE [creates |-> Map(Targets(files), spec), op |-> "resolve",
            value |-> Undefined]

CreateTheme ==
  /\ Count({"createTheme"}) < MaxCreate
  /\ \E f \in 1..Len(FilesValues), p \in 1..Len(ProcessorsValues),
        m \in {1, 3}, s \in {1, 2}, d \in {1, 2}, b \in Builds :
       LET o == [files |-> FilesValues[f], map |-> FlagValues[m],
                 processors |-> ProcessorsValues[p],
                 silent |-> FlagValues[s], debug |-> FlagValues[d]]
           c == Len(calls) + 1
           r == createTheme(b, o)
       IN  /\ calls' = Append(calls,
                 Call("createTheme", o, "settled", 0, 0, [build |-> b]))
           /\ trace' = trace
                 \o Map(r.creates, LAMBDA a : Engine("create", "target", a, c))
                 \o <<Settle(r.op, r.value, c)>>

NextCreate == CreateTheme

SpecCreate == Init /\ [][NextCreate]_vars

(***************************************************************************)
(* es6Template: the template function of the es6-template package, which    *)
(* is not part of this repository.  It replaces each ${key} placeholder by  *)
(* the value the locals give for key.  What the package does with a         *)
(* placeholder the locals do not name, or with a template that is not a     *)
(* string, is not decided here: `strict` is the package either throwing or  *)
(* leaving the text as it is, and every call site draws it from BOOLEAN.    *)
(***************************************************************************)
Has(locals, k) == \E i \in 1..Len(locals) : locals[i][1] = k
Lookup(locals, k) ==
  locals[CHOOSE i \in 1..Len(locals) : locals[i][1] = k][2]

es6Template(str, locals, strict) ==
  IF str.t # "string"
    THEN IF strict
           THEN [throws |-> TRUE,
                 value |-> Err("TypeError", "template is not a string")]
           ELSE [throws |-> FALSE, value |-> Str(str.t)]
  ELSE IF strict /\ \E i \in 1..Len(str.v) :
                       str.v[i][1] = "var" /\ ~Has(locals, str.v[i][2])
    THEN [throws |-> TRUE,
          value |-> Err("ReferenceError", "placeholder is not defined")]
  ELSE [throws |-> FALSE,
        value |-> Path(Map(str.v, LAMBDA tk :
                    IF tk[1] = "var" /\ Has(locals, tk[2])
                      THEN Lit(Lookup(locals, tk[2])) ELSE tk))]

(***************************************************************************)
(* cssAdd                                                                  *)
(***************************************************************************)
\* the fragment-requests the model draws from: null, a plain path with the
\* defaults, and a path with a placeholder, its value and silent set
Requests ==
  << Null,
     Obj([name |-> Undefined, dirName |-> Str("/theme"),
          filePath |-> Path(<<Lit("css/a.css")>>), silent |-> Undefined,
          rest |-> <<>>]),
     Obj([name |-> Str("b.css"), dirName |-> Str("/theme"),
          filePath |-> Path(<<Lit("css/"), Var("scheme"), Lit(".css")>>),
          silent |-> Bool(TRUE), rest |-> << <<"scheme", "dark">> >>]) >>

\* the action values the model draws from
ActionValues ==
  << Undefined, Str("append"), Str("prepend"), Str("remove"), Num(42), Null >>

\* the properties of {}: every one undefined
EmptyObject ==
  [name |-> Undefined, dirName |-> Undefined, filePath |-> Undefined,
   silent |-> Undefined, rest |-> <<>>]

\* an action check that lets every string through
ActionInvalidLax(action) == FALSE

\* the second check of cssAdd
ActionInvalid(action) == action # Str("append") /\ action # Str("prepend")

\* the engine operation cssAdd uses for a valid action
EngineOp(action) == IF action = Str("append") THEN "append" ELSE "prepend"

\* cssAdd from its call to its first await: parameter binding, the two
\* checks, the two renderings; `ok` with what the engine and the bus are
\* then handed, or the error thrown
cssAddEnter(action0, data0, strict) ==
  LET action == Default(action0, Str("append"))
      data   == Default(data0, Obj(EmptyObject))
      f      == IF data.t = "object" THEN data.v ELSE EmptyObject
      name   == Default(f.name, Str("styles.css"))
      silent == Default(f.silent, Bool(FALSE))
      structuralFilePath == es6Template(f.filePath, <<>>, strict)
      themeFilePath      == es6Template(f.filePath, f.rest, strict)
      fail(e) == [ok |-> FALSE, error |-> e]
  IN  IF data = Null
        THEN fail(Err("TypeError", "Cannot destructure 'null'."))
      ELSE IF TypeOf(action) # "string"
        THEN fail(Err("TypeError", "'action' is not a 'string'."))
      ELSE IF ActionInvalid(action)
        THEN fail(Err("Error", "'action' is not 'append' or 'prepend'."))
      ELSE IF structuralFilePath.throws THEN fail(structuralFilePath.value)
      ELSE IF themeFilePath.throws THEN fail(themeFilePath.value)
      ELSE [ok |-> TRUE, act |-> EngineOp(action), silent |-> silent,
            descriptor |-> Obj([name |-> name, dirName |-> f.dirName,
                                filePath |-> structuralFilePath.value,
                                silent |-> silent]),
            request |-> Obj([name |-> name,
                             filePath |-> themeFilePath.value,
                             silent |-> silent])]

\* what invocation c of cssAdd writes to the journal up to its first await
EnterTrace(r, c) ==
  IF r.ok
    THEN <<Engine(r.act, "structural", r.descriptor, c),
           Bus("triggerAsync", "typhonjs:theme:css:get", r.request, c)>>
    ELSE <<Settle("reject", r.error, c)>>

\* the invocation as it stands at its first await
EnterCall(op, args, r, parent, index) ==
  Call(op, args, IF r.ok THEN "awaitThemeCSS" ELSE "settled", parent, index,
       IF r.ok THEN [action |-> r.act, silent |-> r.silent] ELSE NoLocals)

AddOps   == {"cssAdd", "cssAppend", "cssPrepend"}
BatchOps == {"cssAppendAll", "cssPrependAll"}

\* SpecAdd follows one operation of the family (cssAdd, cssAppend,
\* cssPrepend, cssAppendAll, cssPrependAll) from its call to the settlement
\* of every promise it made: the operations share no state but the engine,
\* and what is stated of one is stated of its own engine calls
NoneCalled == Count(AddOps \cup BatchOps) = 0

\* cssAdd(action, data), called directly
CssAdd ==
  /\ NoneCalled
  /\ \E a \in 1..Len(ActionValues), d \in 1..Len(Requests), strict \in BOOLEAN :
       LET c == Len(calls) + 1
           r == cssAddEnter(ActionValues[a], Requests[d], strict)
       IN  /\ calls' = Append(calls,
                 EnterCall("cssAdd",
                           [action |-> ActionValues[a], data |-> Requests[d]],
                           r, 0, 0))
           /\ trace' = trace \o EnterTrace(r, c)

\* cssAppend(data) and cssPrepend(data): await this.cssAdd(action, data)
CssAppendOrPrepend(op, action) ==
  /\ NoneCalled
  /\ \E d \in 1..Len(Requests), strict \in BOOLEAN :
       LET c == Len(calls) + 1
           r == cssAddEnter(action, Default(Requests[d], Obj(EmptyObject)), strict)
       IN  /\ calls' = Append(calls,
                 EnterCall(op, [action |-> action, data |-> Requests[d]],
                           r, 0, 0))
           /\ trace' = trace \o EnterTrace(r, c)

CssAppend  == CssAppendOrPrepend("cssAppend", Str("append"))
CssPrepend == CssAppendOrPrepend("cssPrepend", Str("prepend"))

\* a loop that ends at the first entry whose cssAdd fails
LoopUntilThrow(action, data, strict) ==
  LET n == Len(data)
      bad == {i \in 1..n : ~cssAddEnter(action, data[i], strict).ok}
      last == IF bad = {} THEN n ELSE CHOOSE i \in bad : \A j \in bad : i <= j
  IN  [i \in 1..last |-> i]

\* a loop that takes the entries last to first
LoopReversed(action, data, strict) ==
  [i \in 1..Len(data) |-> Len(data) + 1 - i]

\* for (const entry of data) { promises.push(this.cssAdd(action, entry)); }
\* the entries the loop hands to cssAdd, in order
Loop(action, data, strict) == [i \in 1..Len(data) |-> i]

\* Promise.all(promises), given the members' rejections so far in the order
\* they happened and the number of members still pending
PromiseAll(rejections, pending) ==
  IF rejections # <<>>
    THEN [settles |-> TRUE, op |-> "reject", value |-> Head(rejections)]
  ELSE IF pending = 0
    THEN [settles |-> TRUE, op |-> "resolve", value |-> Undefined]
  ELSE [settles |-> FALSE, op |-> "", value |-> Undefined]

\* the members of batch b
Members(b) == {c \in 1..Len(calls) : calls[c].parent = b}

\* cssAppendAll(data) and cssPrependAll(data), up to return Promise.all
CssAll(op, action) ==
  /\ NoneCalled
  /\ \E n \in 0..MaxAdds, strict \in BOOLEAN :
       \E pick \in [1..n -> 1..Len(Requests)] :
         LET data  == [i \in 1..n |-> Requests[pick[i]]]
             b     == Len(calls) + 1
             visit == Loop(action, data, strict)
             r(k)  == cssAddEnter(action, data[visit[k]], strict)
         IN  /\ calls' = calls
                   \o <<Call(op, Arr(data), "awaitAll", 0, 0, NoLocals)>>
                   \o [k \in 1..Len(visit) |->
                         EnterCall("cssAdd",
                                   [action |-> action, data |-> data[visit[k]]],
                                   r(k), b, visit[k])]
             /\ trace' = trace
                   \o Concat([k \in 1..Len(visit) |-> EnterTrace(r(k), b + k)])

CssAppendAll  == CssAll("cssAppendAll", Str("append"))
CssPrependAll == CssAll("cssPrependAll", Str("prepend"))

\* the replies to 'typhonjs:theme:css:get' the model draws from
A == Obj([css |-> "A"])
B == Obj([css |-> "B"])
C == Obj([css |-> "C"])
\* undefined, an object that is no list, and the list [[A, [B]], C]
ThemeCssReplies ==
  << Undefined, Obj([css |-> "A"]), Arr(<<Arr(<<A, Arr(<<B>>)>>), C>>) >>

\* a flattening that goes all the way down
RECURSIVE FlattenDeep(_)
FlattenDeep(themeCSS) ==
  Concat([i \in 1..Len(themeCSS) |->
            IF IsArray(themeCSS[i]) THEN FlattenDeep(themeCSS[i].v)
            ELSE <<themeCSS[i]>>])

\* the two loops over themeCSS: the entries forwarded, in order
Flatten(themeCSS) ==
  Concat([i \in 1..Len(themeCSS) |->
            IF IsArray(themeCSS[i]) THEN themeCSS[i].v ELSE <<themeCSS[i]>>])

\* the else branch of the earlier version (part_000, lines 115-119): the
\* diagnostic is triggered whatever the reply and whatever silent
LogsErrorAlways(themeCSS, silent) == TRUE

\* whether the else branch triggers 'log:error'
LogsError(themeCSS, silent) ==
  TypeOf(themeCSS) # "undefined" /\ ~Truthy(silent)

\* the text of the diagnostic
LogMessage(themeCSS) ==
  Path(<<Lit("typhonjs-theme-engine - cssAdd error: 'themeCSS' is not an 'array'; found: '"),
         Lit(TypeOf(themeCSS)), Lit(".")>>)

\* cssAdd from the reply to its return
cssAddResume(c, locals, themeCSS) ==
  IF IsArray(themeCSS)
    THEN Map(Flatten(themeCSS.v),
             LAMBDA entry : Engine(locals.action, "themeCSS", entry, c))
  ELSE IF LogsError(themeCSS, locals.silent)
    THEN <<Bus("trigger", "log:error", LogMessage(themeCSS), c)>>
  ELSE <<>>

\* the bus answers invocation c's request with a value
ThemeCssReply(c) ==
  /\ calls[c].pc = "awaitThemeCSS"
  /\ \E i \in 1..Len(ThemeCssReplies) :
       trace' = trace
         \o <<Bus("reply", "typhonjs:theme:css:get", ThemeCssReplies[i], c)>>
         \o cssAddResume(c, calls[c].locals, ThemeCssReplies[i])
         \o <<Settle("resolve", Undefined, c)>>
  /\ calls' = [calls EXCEPT ![c].pc = "settled"]

\* an await that drops the structural fragment when the round trip fails
AwaitRejectedRollback(tr, c, e) ==
  SelectSeq(tr, LAMBDA x : ~(x.on = "_postcss" /\ x.by = c))
  \o <<Bus("reject", "typhonjs:theme:css:get", e, c), Settle("reject", e, c)>>

\* the journal after the awaited round trip of invocation c rejects with e:
\* the await throws e and the async function rejects with it
AwaitRejected(tr, c, e) ==
  tr \o <<Bus("reject", "typhonjs:theme:css:get", e, c), Settle("reject", e, c)>>

\* the bus round trip of invocation c fails
ThemeCssReject(c) ==
  /\ calls[c].pc = "awaitThemeCSS"
  /\ trace' = AwaitRejected(trace, c, Err("BusError", c))
  /\ calls' = [calls EXCEPT ![c].pc = "settled"]

\* the settlements of b's members of kind op, in the order they happened
MemberSettles(b, op) ==
  SelectSeq(trace, LAMBDA e : e.on = "promise" /\ e.op = op /\ e.by \in Members(b))

\* the promise Promise.all returned for batch b settles
PromiseAllSettle(b) ==
  /\ calls[b].pc = "awaitAll"
  /\ LET r == PromiseAll(Map(MemberSettles(b, "reject"), LAMBDA e : e.arg),
                         Cardinality({c \in Members(b) : calls[c].pc # "settled"}))
     IN  /\ r.settles
         /\ trace' = Append(trace, Settle(r.op, r.value, b))
  /\ calls' = [calls EXCEPT ![b].pc = "settled"]

NextAdd ==
  \/ CssAdd
  \/ CssAppend
  \/ CssPrepend
  \/ CssAppendAll
  \/ CssPrependAll
  \/ \E c \in 1..Len(calls) : ThemeCssReply(c)
  \/ \E c \in 1..Len(calls) : ThemeCssReject(c)
  \/ \E b \in 1..Len(calls) : PromiseAllSettle(b)

SpecAdd == Init /\ [][NextAdd]_vars

\* the batches alone: cssAppendAll and cssPrependAll, the round trips of
\* their members and the settlement of Promise.all
NextBatch ==
  \/ CssAppendAll
  \/ CssPrependAll
  \/ \E c \in 1..Len(calls) : ThemeCssReply(c)
  \/ \E c \in 1..Len(calls) : ThemeCssReject(c)
  \/ \E b \in 1..Len(calls) : PromiseAllSettle(b)

SpecBatch == Init /\ [][NextBatch]_vars

(***************************************************************************)
(* finalizeTheme                                                           *)
(***************************************************************************)
Frag(n) == Obj([css |-> n])
File(n) == Obj([file |-> n])
Bundle(a, p, c) == Obj([append |-> a, prepend |-> p, copy |-> c])

\* the replies to 'typhonjs:theme:resources:get' the model draws from
ResourceReplies ==
  << Undefined, Null,
     Arr(<<Bundle(Arr(<<Frag("a1")>>), Undefined, Arr(<<File("c1")>>)),
           Bundle(Arr(<<Frag("a2")>>), Undefined, Arr(<<File("c2")>>))>>),
     Bundle(Arr(<<Frag("a1"), Frag("a2")>>), Arr(<<Frag("p1"), Frag("p2")>>),
            Arr(<<File("c1"), File("c2")>>)),
     Arr(<<Bundle(Arr(<<Frag("a1"), Frag("a2")>>), Arr(<<Frag("p1"), Frag("p2")>>),
                  Arr(<<File("c1"), File("c2")>>))>>),
     Arr(<<Bundle(Arr(<<>>), Arr(<<Frag("p1")>>), Str("c1")),
           Bundle(Arr(<<Frag("a2")>>), Arr(<<Frag("p2")>>), Arr(<<File("c2")>>))>>),
     Bundle(Arr(<<>>), Arr(<<Frag("p1")>>), Str("c1")),
     Arr(<<Bundle(Arr(<<Frag("a1")>>), Undefined, Arr(<<File("c1")>>)), Null>>) >>

\* what engine.finalizeAll resolves with
FinalizeAllResults == << Arr(<<Obj([css |-> "styles.css"])>>), Arr(<<>>) >>

\* Array.isArray(x) && x.length
NonEmptyArray(x) == IsArray(x) /\ x.v # <<>>

\* reading a property of null or undefined throws
HasProperties(x) == x.t \notin {"null", "undefined"}

\* a property of x; undefined when x has no such property
Prop(x, field) ==
  IF x.t = "object" /\ field \in DOMAIN x.v THEN x.v[field] ELSE Undefined

\* an object branch that forwards the prepend list before the append list
ObjectBranchSwapped(themeResources) ==
  [calls |->
     (IF NonEmptyArray(Prop(themeResources, "prepend"))
        THEN Map(Prop(themeResources, "prepend").v, LAMBDA e : <<"prepend", e>>)
        ELSE <<>>)
     \o (IF NonEmptyArray(Prop(themeResources, "append"))
           THEN Map(Prop(themeResources, "append").v, LAMBDA e : <<"append", e>>)
           ELSE <<>>),
   copy |->
     IF NonEmptyArray(Prop(themeResources, "copy"))
       THEN Prop(themeResources, "copy").v ELSE <<>>,
   throws |-> FALSE]

\* else if (typeof themeResources === 'object'): the engine calls and the
\* copy list for a single bundle
ObjectBranch(themeResources) ==
  [calls |->
     (IF NonEmptyArray(Prop(themeResources, "append"))
        THEN Map(Prop(themeResources, "append").v, LAMBDA e : <<"append", e>>)
        ELSE <<>>)
     \o (IF NonEmptyArray(Prop(themeResources, "prepend"))
           THEN Map(Prop(themeResources, "prepend").v, LAMBDA e : <<"prepend", e>>)
           ELSE <<>>),
   copy |->
     IF NonEmptyArray(Prop(themeResources, "copy"))
       THEN Prop(themeResources, "copy").v ELSE <<>>,
   throws |-> FALSE]

RECURSIVE ListBranch(_, _)
\* if (Array.isArray(themeResources)): the loop over the bundles, from the
\* bundles left and what the loop has done so far
ListBranch(resources, done) ==
  IF resources = <<>> THEN done
  ELSE LET resource == Head(resources)
       IN  IF ~HasProperties(resource)
             THEN [done EXCEPT !.throws = TRUE]
           ELSE ListBranch(Tail(resources),
                  [calls |-> done.calls
                     \o (IF NonEmptyArray(Prop(resource, "append"))
                           THEN Map(Prop(resource, "append").v,
                                    LAMBDA e : <<"append", e>>)
                           ELSE <<>>)
                     \o (IF NonEmptyArray(Prop(resource, "prepend"))
                           THEN Map(Prop(resource, "prepend").v,
                                    LAMBDA e : <<"prepend", e>>)
                           ELSE <<>>),
                   copy |-> done.copy
                     \o (IF NonEmptyArray(Prop(resource, "copy"))
                           THEN Prop(resource, "copy").v ELSE <<>>),
                   throws |-> FALSE])

NothingDone == [calls |-> <<>>, copy |-> <<>>, throws |-> FALSE]

\* finalizeTheme from the reply to the call of finalizeAll
finalizeResources(themeResources) ==
  IF IsArray(themeResources) THEN ListBranch(themeResources.v, NothingDone)
  ELSE IF TypeOf(themeResources) = "object"
    THEN IF HasProperties(themeResources)
           THEN ObjectBranch(themeResources)
           ELSE [NothingDone EXCEPT !.throws = TRUE]
  ELSE NothingDone

\* finalizeTheme({ silent }), up to the await of the resources
FinalizeTheme ==
  /\ Count({"finalizeTheme"}) < MaxFinalize
  /\ \E s \in 1..Len(FlagValues), given \in BOOLEAN :
       LET o == IF given THEN Obj([silent |-> FlagValues[s]]) ELSE Undefined
           silent == Default(Prop(Default(o, Obj([silent |-> Undefined])), "silent"),
                             Bool(FALSE))
           c == Len(calls) + 1
       IN  /\ calls' = Append(calls,
                 Call("finalizeTheme", o, "awaitResources", 0, 0,
                      [silent |-> silent, copy |-> <<>>]))
           /\ trace' = Append(trace,
                 Bus("triggerAsync", "typhonjs:theme:resources:get", Undefined, c))

\* the bus answers the request for the resources with a value
ResourcesReply(c) ==
  /\ calls[c].pc = "awaitResources"
  /\ \E i \in 1..Len(ResourceReplies) :
       LET r == finalizeResources(ResourceReplies[i])
           reply == <<Bus("reply", "typhonjs:theme:resources:get", ResourceReplies[i], c)>>
           forwarded == Map(r.calls, LAMBDA x : Engine(x[1], "resource", x[2], c))
       IN  IF r.throws
             THEN /\ trace' = trace \o reply \o forwarded
                       \o <<Settle("reject",
                                   Err("TypeError", "Cannot read property of null"), c)>>
                  /\ calls' = [calls EXCEPT ![c].pc = "settled"]
             ELSE /\ trace' = trace \o reply \o forwarded
                       \o <<Engine("finalizeAll", "finalize",
                                   Obj([silent |-> calls[c].locals.silent]), c)>>
                  /\ calls' = [calls EXCEPT ![c].pc = "awaitFinalizeAll",
                                            ![c].locals.copy = r.copy]

\* the request for the resources fails
ResourcesReject(c) ==
  /\ calls[c].pc = "awaitResources"
  /\ trace' = trace
       \o <<Bus("reject", "typhonjs:theme:resources:get", Err("BusError", c), c),
            Settle("reject", Err("BusError", c), c)>>
  /\ calls' = [calls EXCEPT ![c].pc = "settled"]

\* return { css, copy: copyResources }
FinalizeResult(css, copyResources) ==
  Obj([css |-> css, copy |-> Arr(copyResources)])

\* engine.finalizeAll resolves and finalizeTheme returns
FinalizeAllDone(c) ==
  /\ calls[c].pc = "awaitFinalizeAll"
  /\ \E i \in 1..Len(FinalizeAllResults) :
       trace' = trace
         \o <<Engine("resolved", "finalizeAll", FinalizeAllResults[i], c),
              Settle("resolve",
                     FinalizeResult(FinalizeAllResults[i], calls[c].locals.copy), c)>>
  /\ calls' = [calls EXCEPT ![c].pc = "settled"]

\* engine.finalizeAll rejects
FinalizeAllFails(c) ==
  /\ calls[c].pc = "awaitFinalizeAll"
  /\ trace' = trace
       \o <<Engine("rejected", "finalizeAll", Err("EngineError", c), c),
            Settle("reject", Err("EngineError", c), c)>>
  /\ calls' = [calls EXCEPT ![c].pc = "settled"]

NextFinalize ==
  \/ FinalizeTheme
  \/ \E c \in 1..Len(calls) : ResourcesReply(c)
  \/ \E c \in 1..Len(calls) : ResourcesReject(c)
  \/ \E c \in 1..Len(calls) : FinalizeAllDone(c)
  \/ \E c \in 1..Len(calls) : FinalizeAllFails(c)

SpecFinalize == Init /\ [][NextFinalize]_vars

(***************************************************************************)
(* The whole class.  The three families of operations share nothing but the *)
(* engine; the properties below are checked under the specification of the  *)
(* family they are about.                                                   *)
(***************************************************************************)
Next == NextCreate \/ NextAdd \/ NextFinalize

Spec == Init /\ [][Next]_vars

(***************************************************************************)
(* Reading the journal.                                                    *)
(***************************************************************************)
Idx == 1..Len(trace)

\* what invocation c wrote on `on`, in order
Journal(c, on) == SelectSeq(trace, LAMBDA e : e.on = on /\ e.by = c)

\* the calls invocation c made on the engine, in order
EngineCalls(c) ==
  SelectSeq(trace, LAMBDA e : e.on = "_postcss" /\ e.by = c
                              /\ e.op \in {"create", "append", "prepend", "finalizeAll"})

\* the bus traffic of kind op that belongs to invocation c
BusTraffic(c, op) ==
  SelectSeq(trace, LAMBDA e : e.on = "_eventbus" /\ e.by = c /\ e.op = op)

\* invocation c ended rejected with an error of class kind, and only that
RejectedWith(c, kind) ==
  /\ Len(Journal(c, "promise")) = 1
  /\ Journal(c, "promise")[1].op = "reject"
  /\ Journal(c, "promise")[1].arg.t = "error"
  /\ Journal(c, "promise")[1].arg.v[1] = kind

\* invocation c ended resolved
Resolved(c) ==
  /\ Len(Journal(c, "promise")) = 1
  /\ Journal(c, "promise")[1].op = "resolve"

\* the spec's error classes: InvalidArgument is the code's TypeError,
\* InvalidOperation its plain Error
InvalidArgument  == "TypeError"
InvalidOperation == "Error"

(***************************************************************************)
(* createTheme: C5, C6, C8 (checked under SpecCreate)                       *)
(***************************************************************************)
C5_BadFiles(o) == o.files.t \notin {"undefined", "string", "array"}

C5_BadProcessors(b, o) ==
  LET defaulted == \/ o.processors.t = "undefined"
                   \/ b = "src" /\ o.processors.t = "null"
  IN  ~defaulted /\ o.processors.t # "array"

\* C5: createTheme fails with InvalidArgument for every files value that is
\* neither a string nor a list and for every processors value that is not a
\* list after defaulting, and the engine then receives no create call, also
\* when the other parameter is valid.
C5_InvalidArgumentsCreateNothing ==
  \A c \in 1..Len(calls) :
    ( /\ calls[c].op = "createTheme"
      /\ \/ C5_BadFiles(calls[c].args)
         \/ C5_BadProcessors(calls[c].locals.build, calls[c].args) )
    => /\ RejectedWith(c, InvalidArgument)
       /\ EngineCalls(c) = <<>>

\* C5 witness: a valid list of files with processors a string: rejected, and
\* nothing was created.
C5_Witness ==
  \E c \in 1..Len(calls) :
    /\ calls[c].op = "createTheme"
    /\ calls[c].args.files = Arr(<<Str("a.css"), Str("b.css")>>)
    /\ calls[c].args.processors = Str("cssnano")
    /\ RejectedWith(c, InvalidArgument)
    /\ EngineCalls(c) = <<>>

\* C6: a createTheme whose files is a list with an element that is not a
\* string fails with InvalidArgument and registers no target.
C6_ListWithNonStringRejected ==
  \A c \in 1..Len(calls) :
    ( /\ calls[c].op = "createTheme"
      /\ IsArray(calls[c].args.files)
      /\ \E i \in 1..Len(calls[c].args.files.v) :
           calls[c].args.files.v[i].t # "string" )
    => /\ RejectedWith(c, InvalidArgument)
       /\ EngineCalls(c) = <<>>

C8_Stages(p) == [k \in 1..Len(p.v) |-> p.v[k].v.instance]

At(c, tag) ==
  {i \in Idx : trace[i].on = "_postcss" /\ trace[i].by = c /\ trace[i].tag = tag}

\* everything invocation c wrote to the journal, in order
Own(c) == SelectSeq(trace, LAMBDA e : e.by = c)

\* the part of a journal written on `on`
On(own, on) == SelectSeq(own, LAMBDA e : e.on = on)

\* invocation c failed before it reached the engine or the bus: all it
\* wrote is the rejection of its promise
FailedBeforeEngine(c) ==
  LET own == Own(c)
  IN  /\ own # <<>>
      /\ \A k \in 1..Len(own) : own[k].on = "promise" /\ own[k].op = "reject"

\* the invocations whose promise has rejected
Rejected == {trace[i].by : i \in {j \in Idx : trace[j].on = "promise"
                                               /\ trace[j].op = "reject"}}

\* the engine operation a batch, or an action value, stands for
OpOf(b) == IF calls[b].op = "cssAppendAll" THEN "append" ELSE "prepend"
OpFor(action) == IF action = Str("prepend") THEN "prepend" ELSE "append"

\* the positions where the promise of invocation c rejects
RejectsAt(c) ==
  {i \in Idx : trace[i].on = "promise" /\ trace[i].by = c /\ trace[i].op = "reject"}

\* C1: in a cssAppendAll or cssPrependAll batch where one request fails
\* inside cssAdd before reaching the engine, the loop still starts every
\* other request, and each of those that passes makes its structural engine
\* call (append resp. prepend) before the promise of the batch rejects.
C1_BatchStartsEveryRequest ==
  \A b \in 1..Len(calls) :
    calls[b].op \in BatchOps =>
      LET failed == {m \in Rejected \cap Members(b) : FailedBeforeEngine(m)}
      IN  failed # {} =>
            \A i \in 1..Len(calls[b].args.v) :
              \E m \in Members(b) :
                /\ calls[m].index = i
                /\ \/ m \in failed
                   \/ \E p \in At(m, "structural") :
                        /\ trace[p].op = OpOf(b)
                        /\ \A q \in RejectsAt(b) : p < q

\* C1 witness: a batch of three requests, the second failed before the
\* engine, the first and the third made their engine call, and the promise
\* of the batch has rejected.
C1_Witness ==
  \E b \in 1..Len(calls) :
    /\ calls[b].op \in BatchOps
    /\ Len(calls[b].args.v) = 3
    /\ RejectsAt(b) # {}
    /\ \E m1, m2, m3 \in Members(b) :
         /\ calls[m1].index = 1 /\ calls[m2].index = 2 /\ calls[m3].index = 3
         /\ FailedBeforeEngine(m2)
         /\ At(m1, "structural") # {} /\ At(m3, "structural") # {}

RECURSIVE C2_Leaves(_)
\* the entries of a reply with the lists among them opened, one level only
C2_Leaves(reply) ==
  IF reply = <<>> THEN <<>>
  ELSE (IF Head(reply).t = "array" THEN Head(reply).v ELSE <<Head(reply)>>)
       \o C2_Leaves(Tail(reply))

\* {name, dirName, filePath, silent} for the request `data`: the defaults
\* applied, and filePath rendered without substitution data
C2_IsDescriptor(arg, data) ==
  /\ arg.t = "object"
  /\ DOMAIN arg.v = {"name", "dirName", "filePath", "silent"}
  /\ arg.v.name = Default(data.v.name, Str("styles.css"))
  /\ arg.v.dirName = data.v.dirName
  /\ arg.v.silent = Default(data.v.silent, Bool(FALSE))
  /\ \E strict \in BOOLEAN :
       /\ ~es6Template(data.v.filePath, <<>>, strict).throws
       /\ arg.v.filePath = es6Template(data.v.filePath, <<>>, strict).value

\* C2: a cssAdd whose theme-CSS reply is a list calls the engine only on the
\* operation that matches its action: first, before the reply, with the
\* structural descriptor {name, dirName, filePath, silent}; then, after the
\* reply, with every entry of the reply, the lists among the entries opened
\* one level, in reply order, each once and unchanged.
C2_ListReplyForwardedInOrder ==
  \A r \in Idx :
    ( /\ trace[r].on = "_eventbus" /\ trace[r].op = "reply"
      /\ calls[trace[r].by].op \in AddOps
      /\ IsArray(trace[r].arg) )
    => LET c      == trace[r].by
           op     == OpFor(calls[c].args.action)
           own    == Own(c)
           at     == CHOOSE k \in 1..Len(own) : own[k] = trace[r]
           before == On(SubSeq(own, 1, at - 1), "_postcss")
           after  == On(SubSeq(own, at + 1, Len(own)), "_postcss")
       IN  /\ Len(before) = 1
           /\ before[1].op = op
           /\ C2_IsDescriptor(before[1].arg, calls[c].args.data)
           /\ [k \in 1..Len(after) |-> after[k].arg] = C2_Leaves(trace[r].arg.v)
           /\ \A k \in 1..Len(after) : after[k].op = op

\* C2 witness: a prepend that got the reply [[A, [B]], C] and made the four
\* engine calls: structural, A, [B], C.
C2_Witness ==
  \E c \in 1..Len(calls) :
    /\ calls[c].op \in AddOps
    /\ calls[c].args.action = Str("prepend")
    /\ Len(BusTraffic(c, "reply")) = 1
    /\ BusTraffic(c, "reply")[1].arg = Arr(<<Arr(<<A, Arr(<<B>>)>>), C>>)
    /\ [k \in 1..Len(EngineCalls(c)) |-> EngineCalls(c)[k].op]
         = <<"prepend", "prepend", "prepend", "prepend">>
    /\ [k \in 2..4 |-> EngineCalls(c)[k].arg] = [k \in 2..4 |-> <<A, Arr(<<B>>), C>>[k - 1]]

\* cssAdd called directly
C4_Direct(c) == calls[c].op = "cssAdd" /\ calls[c].parent = 0

\* C4 as the spec states it: cssAdd called with any action value that is not
\* exactly "append" or "prepend", a value that is no string included, fails
\* with InvalidOperation, and no engine call and no theme-CSS request occurs.
C4_AnyOtherActionIsInvalidOperation ==
  \A c \in 1..Len(calls) :
    ( /\ C4_Direct(c)
      /\ calls[c].args.action # Str("append")
      /\ calls[c].args.action # Str("prepend") )
    => /\ RejectedWith(c, InvalidOperation)
       /\ Journal(c, "_postcss") = <<>>
       /\ Journal(c, "_eventbus") = <<>>

\* C4 amended: cssAdd called with a defined action value that is not exactly
\* "append" or "prepend" fails with no engine call and no theme-CSS request:
\* with InvalidOperation when the action is a string and the data can be
\* destructured, with InvalidArgument when the action is no string or the
\* data is null.  An action that is undefined is the default, "append", and
\* is not refused.
C4_DefinedOtherActionFails ==
  \A c \in 1..Len(calls) :
    C4_Direct(c) =>
      LET action == calls[c].args.action
          data   == calls[c].args.data
      IN  /\ ( action # Str("append") /\ action # Str("prepend")
               /\ action # Undefined )
              => /\ Journal(c, "_postcss") = <<>>
                 /\ Journal(c, "_eventbus") = <<>>
                 /\ IF action.t = "string" /\ data # Null
                      THEN RejectedWith(c, InvalidOperation)
                      ELSE RejectedWith(c, InvalidArgument)
          /\ action = Undefined
              => /\ ~RejectedWith(c, InvalidOperation)
                 /\ \A k \in 1..Len(Journal(c, "_postcss")) :
                      Journal(c, "_postcss")[k].op = "append"

\* C4 witness: cssAdd("remove", request) was rejected with InvalidOperation
\* and neither the engine nor the bus heard of it.
C4_Witness ==
  \E c \in 1..Len(calls) :
    /\ C4_Direct(c)
    /\ calls[c].args.action = Str("remove")
    /\ calls[c].args.data # Null
    /\ RejectedWith(c, InvalidOperation)
    /\ Journal(c, "_postcss") = <<>>
    /\ Journal(c, "_eventbus") = <<>>

\* whether the request asked for silence
C7_Silent(data) == Truthy(Default(data.v.silent, Bool(FALSE)))

\* C7: in src/src/ThemeEngine.js a cssAdd whose theme-CSS reply is not a list
\* makes exactly one engine call, the structural one, and completes without
\* error; 'log:error' is triggered exactly when the reply is defined and
\* silent is false.
C7_NonListReply ==
  \A r \in Idx :
    ( /\ trace[r].on = "_eventbus" /\ trace[r].op = "reply"
      /\ calls[trace[r].by].op \in AddOps
      /\ ~IsArray(trace[r].arg) )
    => LET c       == trace[r].by
           own     == Own(c)
           engine  == On(own, "_postcss")
           promise == On(own, "promise")
           logs    == SelectSeq(own, LAMBDA e : e.on = "_eventbus" /\ e.op = "trigger")
       IN  /\ Len(engine) = 1
           /\ engine[1].tag = "structural"
           /\ Len(promise) = 1 /\ promise[1].op = "resolve"
           /\ Len(logs) =
                IF trace[r].arg # Undefined /\ ~C7_Silent(calls[c].args.data)
                  THEN 1 ELSE 0
           /\ \A k \in 1..Len(logs) : logs[k].tag = "log:error"

\* C7 witness: one batch in which a reply that is an object drew the
\* diagnostic from a request that is not silent and none from a silent one,
\* and an undefined reply drew none.
C7_Witness ==
  \E c1, c2, c3 \in 1..Len(calls) :
    /\ Len(BusTraffic(c1, "reply")) = 1
    /\ BusTraffic(c1, "reply")[1].arg = Obj([css |-> "A"])
    /\ ~C7_Silent(calls[c1].args.data)
    /\ Len(BusTraffic(c1, "trigger")) = 1
    /\ Len(BusTraffic(c2, "reply")) = 1
    /\ BusTraffic(c2, "reply")[1].arg = Obj([css |-> "A"])
    /\ C7_Silent(calls[c2].args.data)
    /\ BusTraffic(c2, "trigger") = <<>>
    /\ Len(BusTraffic(c3, "reply")) = 1
    /\ BusTraffic(c3, "reply")[1].arg = Undefined
    /\ ~C7_Silent(calls[c3].args.data)
    /\ BusTraffic(c3, "trigger") = <<>>
    /\ Resolved(c1) /\ Resolved(c2) /\ Resolved(c3)

\* what holds of a cssAdd whose round trip failed with e, batch or not: its
\* own promise rejects with e, it asked the bus once, and its structural
\* fragment is still the one engine call it made
C9_OwnFailure(c, e) ==
  LET own    == Own(c)
      engine == On(own, "_postcss")
  IN  /\ On(own, "promise") = <<Settle("reject", e, c)>>
      /\ Len(SelectSeq(own, LAMBDA x : x.on = "_eventbus" /\ x.op = "triggerAsync")) = 1
      /\ Len(engine) = 1
      /\ engine[1].tag = "structural"

\* the rejections of the members of batch b, in the order they happened
C9_Rejections(b) ==
  SelectSeq(trace, LAMBDA e : /\ e.on = "promise" /\ e.op = "reject"
                              /\ e.by \in 1..Len(calls)
                              /\ calls[e.by].parent = b)

\* C9 as the spec states it: when the theme-CSS round trip of a cssAdd, or of
\* one member of a batch, fails, the caller gets that same error value,
\* nothing is retried, and the structural fragment stays in the engine.
C9_EveryFailureReachesCaller ==
  \A r \in Idx :
    ( /\ trace[r].on = "_eventbus" /\ trace[r].op = "reject"
      /\ calls[trace[r].by].op \in AddOps )
    => LET c == trace[r].by
           b == calls[c].parent
       IN  /\ C9_OwnFailure(c, trace[r].arg)
           /\ ( b # 0 /\ calls[b].pc = "settled" )
                => Journal(b, "promise") = <<Settle("reject", trace[r].arg, b)>>

\* C9 amended: the promise of the failed cssAdd rejects with that same error
\* value, nothing is retried and the structural fragment stays in the
\* engine; the caller of a batch gets, unchanged, the error of the member
\* that failed first, and the errors of members that fail later are not
\* surfaced.
C9_FirstFailureReachesCaller ==
  \A r \in Idx :
    ( /\ trace[r].on = "_eventbus" /\ trace[r].op = "reject"
      /\ calls[trace[r].by].op \in AddOps )
    => LET c == trace[r].by
           b == calls[c].parent
       IN  /\ C9_OwnFailure(c, trace[r].arg)
           /\ ( b # 0 /\ calls[b].pc = "settled" )
                => Journal(b, "promise")
                     = <<Settle("reject", C9_Rejections(b)[1].arg, b)>>

\* C9 witness: a batch of two whose members both failed on the bus; the
\* batch rejected with the error of the one that failed first, and both
\* structural fragments are in the engine.
C9_Witness ==
  \E b \in 1..Len(calls) : \E m1, m2 \in Members(b) :
    /\ m1 # m2
    /\ calls[b].pc = "settled"
    /\ Len(BusTraffic(m1, "reject")) = 1 /\ Len(BusTraffic(m2, "reject")) = 1
    /\ Journal(b, "promise") = <<Settle("reject", BusTraffic(m1, "reject")[1].arg, b)>>
    /\ At(m1, "structural") # {} /\ At(m2, "structural") # {}

\* C10: in a batch where every request passes validation the engine gets the
\* structural fragments of all requests in the order of the input, all of
\* them before the first themed entry of any reply, whatever order the
\* replies arrive in; and the themed entries of one reply are forwarded next
\* to each other, never mixed with the entries of another.
C10_StructuralFirstThemedTogether ==
  \A b \in 1..Len(calls) :
    ( /\ calls[b].op \in BatchOps
      /\ \A m \in Rejected \cap Members(b) : ~FailedBeforeEngine(m) )
    => LET engine == SelectSeq(trace, LAMBDA e : /\ e.on = "_postcss"
                                                 /\ calls[e.by].parent = b)
           n      == Len(calls[b].args.v)
       IN  /\ Len(engine) >= n
           /\ \A k \in 1..n : /\ engine[k].tag = "structural"
                               /\ calls[engine[k].by].index = k
           /\ \A k \in n + 1..Len(engine) : engine[k].tag = "themeCSS"
           /\ \A i, j \in n + 1..Len(engine) :
                (i < j /\ engine[i].by = engine[j].by)
                => engine[i + 1].by = engine[i].by

\* C10 witness: a batch whose second request was answered before its first,
\* both with a list.
C10_Witness ==
  \E b \in 1..Len(calls) : \E m1, m2 \in Members(b) :
    /\ calls[b].op \in BatchOps
    /\ \A m \in Members(b) : ~FailedBeforeEngine(m)
    /\ calls[m1].index = 1 /\ calls[m2].index = 2
    /\ At(m1, "themeCSS") # {} /\ At(m2, "themeCSS") # {}
    /\ \A t1 \in At(m1, "themeCSS"), t2 \in At(m2, "themeCSS") : t2 < t1

(***************************************************************************)
(* finalizeTheme: C3 (checked under SpecFinalize)                           *)
(***************************************************************************)
\* the entries of a bundle's field when it is a list, none otherwise
C3_List(bundle, field) ==
  IF field \in DOMAIN bundle.v /\ bundle.v[field].t = "array"
    THEN bundle.v[field].v ELSE <<>>

RECURSIVE C3_Calls(_)
\* bundle by bundle: the append entries, then the prepend entries
C3_Calls(bundles) ==
  IF bundles = <<>> THEN <<>>
  ELSE [k \in 1..Len(C3_List(Head(bundles), "append")) |->
          <<"append", C3_List(Head(bundles), "append")[k]>>]
       \o [k \in 1..Len(C3_List(Head(bundles), "prepend")) |->
             <<"prepend", C3_List(Head(bundles), "prepend")[k]>>]
       \o C3_Calls(Tail(bundles))

RECURSIVE C3_Copy(_)
\* the copy lists, bundle after bundle
C3_Copy(bundles) ==
  IF bundles = <<>> THEN <<>>
  ELSE C3_List(Head(bundles), "copy") \o C3_Copy(Tail(bundles))

\* a reply that is one bundle object or a list of bundle objects, as a list
C3_IsBundle(x) == x.t = "object"
C3_Bundles(reply) == IF IsArray(reply) THEN reply.v ELSE <<reply>>
C3_IsBundles(reply) ==
  /\ IsArray(reply) \/ C3_IsBundle(reply)
  /\ \A k \in 1..Len(C3_Bundles(reply)) : C3_IsBundle(C3_Bundles(reply)[k])

\* C3: finalizeTheme treats a list of resource bundles and a single bundle
\* alike, the single bundle B as the list [B]: bundle by bundle it forwards
\* the entries of a non-empty append list to the engine's append, then those
\* of a non-empty prepend list to prepend, in order; only then does it call
\* finalizeAll, once, with {silent}; and what it returns is {css, copy} with
\* css the result of finalizeAll and copy the non-empty copy lists joined in
\* bundle order.
C3_BundlesNormalisedAlike ==
  \A c \in 1..Len(calls) : \A r \in Idx :
    ( /\ calls[c].op = "finalizeTheme"
      /\ trace[r].on = "_eventbus" /\ trace[r].op = "reply" /\ trace[r].by = c
      /\ C3_IsBundles(trace[r].arg) )
    => LET bundles  == C3_Bundles(trace[r].arg)
           expected == C3_Calls(bundles)
           made     == EngineCalls(c)
           results  == SelectSeq(trace, LAMBDA e : /\ e.on = "_postcss" /\ e.by = c
                                                   /\ e.op = "resolved")
       IN  /\ Len(made) = Len(expected) + 1
           /\ \A k \in 1..Len(expected) :
                <<made[k].op, made[k].arg>> = expected[k]
           /\ made[Len(made)].op = "finalizeAll"
           /\ made[Len(made)].arg
                = Obj([silent |-> Default(Prop(calls[c].args, "silent"), Bool(FALSE))])
           /\ \A i \in Idx :
                (trace[i].on = "_postcss" /\ trace[i].by = c) => r < i
           /\ Resolved(c) =>
                /\ Len(results) = 1
                /\ Journal(c, "promise")[1].arg
                     = Obj([css |-> results[1].arg, copy |-> Arr(C3_Copy(bundles))])

\* C3 witness: the reply [{append:[a1],copy:[c1]},{append:[a2],copy:[c2]}]
\* was followed by append a1, append a2 and finalizeAll, and finalizeTheme
\* returned with copy [c1, c2].
C3_Witness ==
  \E c \in 1..Len(calls) :
    /\ calls[c].op = "finalizeTheme"
    /\ Len(BusTraffic(c, "reply")) = 1
    /\ BusTraffic(c, "reply")[1].arg
         = Arr(<<Bundle(Arr(<<Frag("a1")>>), Undefined, Arr(<<File("c1")>>)),
                 Bundle(Arr(<<Frag("a2")>>), Undefined, Arr(<<File("c2")>>))>>)
    /\ [k \in 1..Len(EngineCalls(c)) |-> EngineCalls(c)[k].op]
         = <<"append", "append", "finalizeAll">>
    /\ EngineCalls(c)[1].arg = Frag("a1") /\ EngineCalls(c)[2].arg = Frag("a2")
    /\ Resolved(c)
    /\ Journal(c, "promise")[1].arg.v.copy = Arr(<<File("c1"), File("c2")>>)

====
